---- MODULE Spec2Model ----
(***************************************************************************)
(* A model of toughio's TOUGH MESH writer (mesh/tough/_tough.py) and of    *)
(* the fixed-width record helpers of the TOUGH input writer               *)
(* (_io/input/tough/_helpers.py).                                          *)
(*                                                                         *)
(* Real numbers are kept exact: a unit normal is the pair (raw integer     *)
(* cross product, squared magnitude), an area and a distance are records   *)
(* of the integers the code combines; a zero squared magnitude is the      *)
(* code's 0/0 (NaN).  Cell labels are the cell indices.                    *)
(***************************************************************************)
EXTENDS Integers, Sequences, FiniteSets, TLC

\* ------------------------------------------------------------------ bounds
NCells == 2
MaxSlots == 2

Cells == 0 .. NCells - 1
Slots == 1 .. MaxSlots
SlotSeq == [k \in Slots |-> k]

\* ------------------------------------------------------------------ vectors
Abs(x) == IF x < 0 THEN -x ELSE x

VSub(a, b) == <<a[1] - b[1], a[2] - b[2], a[3] - b[3]>>

\* _dot, for one row
Dot(a, b) == a[1] * b[1] + a[2] * b[2] + a[3] * b[3]

\* cross, of _get_triangle_normals, for one row
Cross(a, b) ==
  <<a[2] * b[3] - a[3] * b[2], a[3] * b[1] - a[1] * b[3], a[1] * b[2] - a[2] * b[1]>>

\* numpy.sort of one row of distinct vertex indices
SortRow(s) ==
  LET S == {s[k] : k \in DOMAIN s}
  IN  [k \in 1 .. Len(s) |-> CHOOSE x \in S : Cardinality({y \in S : y < x}) = k - 1]

\* ------------------------------------------------------------------ mesh input
\* mesh.points: a unit square 0-1-2-3 in the plane z = 0, a point 4 on the
\* line through 0 and 1, and a point 5 that makes 0-1-5-3 a convex quad
points ==
  [p \in 0 .. 5 |->
     CASE p = 0 -> <<0, 0, 0>>
       [] p = 1 -> <<1, 0, 0>>
       [] p = 2 -> <<1, 1, 0>>
       [] p = 3 -> <<0, 1, 0>>
       [] p = 4 -> <<2, 0, 0>>
       [] p = 5 -> <<2, 2, 0>>]

\* one face slot of mesh.faces: vertex indices, padded with -1 at the end
FaceTri == <<0, 1, 2, -1>>
FaceQuad == <<0, 1, 2, 3>>
FaceEmpty == <<-1, -1, -1, -1>>
\* the triangle 0-1-2 listed the other way round, the quad 0-1-5-3 listed
\* around its boundary, a triangle of three collinear points
FaceTriReversed == <<2, 1, 0, -1>>
FaceQuadUnsorted == <<0, 1, 5, 3>>
FaceDegenerate == <<0, 1, 4, -1>>

\* the face layouts of a cell: which face sits in slot k
Layouts == {"tri", "quad", "quadFirst", "triFirst", "padLast"}

LayoutFace(layout, k) ==
  CASE layout = "tri" -> FaceTri
    [] layout = "quad" -> FaceQuad
    [] layout = "quadFirst" -> IF k = 1 THEN FaceQuad ELSE FaceTri
    [] layout = "triFirst" -> IF k = 1 THEN FaceTri ELSE FaceQuad
    [] layout = "padLast" -> IF k = MaxSlots THEN FaceEmpty ELSE FaceQuad
    [] layout = "reversed" -> IF k = 1 THEN FaceTriReversed ELSE FaceQuad
    [] layout = "unsorted" -> IF k = 1 THEN FaceQuadUnsorted ELSE FaceQuad
    [] layout = "degenerate" -> IF k = 1 THEN FaceDegenerate ELSE FaceQuad
    [] layout = "empty" -> FaceEmpty

\* the layouts of the cells when the faces alone are looked at
FaceLayouts == Layouts \cup {"reversed", "unsorted", "degenerate", "empty"}

\* mesh.centers: cells stacked along z, or in general position
CenterTables ==
  { [i \in Cells |-> <<0, 0, 2 * i - 1>>],
    [i \in Cells |-> <<i, 2 * i, 1 - 3 * i>>] }

Modes == {"line", "orthogonal", "radial"}

\* (face >= 0).sum()
NumVert(face) == Cardinality({k \in DOMAIN face : face[k] >= 0})

\* mesh.connectivity of a conforming mesh: a face is shared by a cell and one
\* other cell, which lists it too, and two cells share at most one face
Symmetric(nb) ==
  \A i \in Cells : \A k \in Slots :
    nb[i][k] >= 0 => \E k2 \in Slots : nb[nb[i][k]][k2] = i

Conforming(nb) ==
  /\ \A i \in Cells : \A k \in Slots : nb[i][k] # i
  /\ \A i \in Cells : \A k, k2 \in Slots :
       (k # k2 /\ nb[i][k] >= 0) => nb[i][k] # nb[i][k2]
  /\ Symmetric(nb)

VARIABLES
  \* write(filename, mesh, nodal_distance): the mesh and the mode
  neighbors, faces, nodes, bc, nodal_distance,
  \* its position, the exception that left it, the file, the log
  pc, err, f, fstate, log,
  \* locals of _write_conne
  faces_dict, faces_cell, face_normals, face_areas,
  icell, cell_list, conn, rows,
  \* check_parameters: decorator arguments, the wrapped call, its progress
  parameters, keys, is_list, cp_pc, cp_jobs, cp_job, cp_item, cp_log, cp_err, cp_calls,
  \* str2float: argument, position, result
  sf_s, sf_pc, sf_out,
  \* to_str: arguments, position, result
  ts_x, ts_fmt, ts_pc, ts_out,
  \* write_record: arguments, position, result
  wr_data, wr_fmt, wr_multi, wr_pc, wr_out,
  \* _isot on the line of one connection: the two centers, position, result
  is_centers, is_pc, is_out,
  \* read_output, tecplot branch: the lines of the file, the number of lines
  \* read, position, line, zone, rows left of the zone, time steps, exception
  tp_file, tp_pos, tp_pc, tp_line, tp_zone, tp_left, tp_steps, tp_err

meshVars ==
  <<neighbors, faces, nodes, bc, nodal_distance, pc, err, f, fstate, log,
    faces_dict, faces_cell, face_normals, face_areas, icell, cell_list, conn, rows>>

checkVars ==
  <<parameters, keys, is_list, cp_pc, cp_jobs, cp_job, cp_item, cp_log, cp_err, cp_calls>>

floatVars == <<sf_s, sf_pc, sf_out>>

toStrVars == <<ts_x, ts_fmt, ts_pc, ts_out>>

recordVars == <<wr_data, wr_fmt, wr_multi, wr_pc, wr_out>>

isotVars == <<is_centers, is_pc, is_out>>

tecplotVars == <<tp_file, tp_pos, tp_pc, tp_line, tp_zone, tp_left, tp_steps, tp_err>>

vars == <<meshVars, checkVars, floatVars, toStrVars, recordVars, isotVars, tecplotVars>>

nonMesh == <<checkVars, floatVars, toStrVars, recordVars, isotVars, tecplotVars>>

\* a component that is not running
IdleMesh ==
  /\ neighbors = <<>> /\ faces = <<>> /\ nodes = <<>> /\ bc = <<>>
  /\ nodal_distance = "line" /\ pc = "idle" /\ err = "none" /\ f = <<>>
  /\ fstate = "none" /\ log = <<>> /\ faces_dict = <<>> /\ faces_cell = <<>>
  /\ face_normals = <<>> /\ face_areas = <<>> /\ icell = 0 /\ cell_list = {}
  /\ conn = <<>> /\ rows = <<>>

IdleCheck ==
  /\ parameters = <<>> /\ keys = <<>> /\ is_list = FALSE /\ cp_pc = "idle"
  /\ cp_jobs = <<>> /\ cp_job = 1 /\ cp_item = 1 /\ cp_log = <<>>
  /\ cp_err = [type |-> "none"] /\ cp_calls = <<>>

IdleFloat == sf_s = <<>> /\ sf_pc = "idle" /\ sf_out = [kind |-> "none"]

IdleToStr ==
  /\ ts_x = [cls |-> "NoneType"] /\ ts_fmt = [type |-> "s", n |-> 0, p |-> -1]
  /\ ts_pc = "idle" /\ ts_out = [kind |-> "none"]

IdleRecord ==
  /\ wr_data = <<>> /\ wr_fmt = <<>> /\ wr_multi = FALSE /\ wr_pc = "idle"
  /\ wr_out = [kind |-> "none"]

IdleIsot == is_centers = <<>> /\ is_pc = "idle" /\ is_out = 0

IdleTecplot ==
  /\ tp_file = <<>> /\ tp_pos = 0 /\ tp_pc = "idle" /\ tp_line = "" /\ tp_zone = [bound |-> FALSE]
  /\ tp_left = 0 /\ tp_steps = 0 /\ tp_err = "none"

meshInput == <<neighbors, faces, nodes, bc, nodal_distance>>

\* ------------------------------------------------------------------ _get_faces
\* the (cell, slot) pairs in the order of the two nested loops
RECURSIVE FlatFrom(_)
FlatFrom(n) ==
  IF n >= NCells * MaxSlots THEN <<>>
  ELSE <<[cell |-> n \div MaxSlots, slot |-> (n % MaxSlots) + 1]>> \o FlatFrom(n + 1)

FaceTypeOf(n) == IF n = 3 THEN "triangle" ELSE "quad"

\* the slots appended to faces_dict[t] and faces_cell[t], in order
TypeSlots(fc, t) ==
  SelectSeq(FlatFrom(0),
            LAMBDA cs : /\ NumVert(fc[cs.cell][cs.slot]) > 0
                        /\ FaceTypeOf(NumVert(fc[cs.cell][cs.slot])) = t)

\* f[:n]
ValidPart(face) == SubSeq(face, 1, NumVert(face))

\* the row of faces_dict[t] stored for one face
DictRow(face) == SortRow(ValidPart(face))

\* the dictionaries keep only the face types that occur
TypeKeys(fc) == {t \in {"triangle", "quad"} : Len(TypeSlots(fc, t)) > 0}

GetFacesDict(fc) ==
  [t \in TypeKeys(fc) |->
     LET ts == TypeSlots(fc, t)
     IN  [n \in 1 .. Len(ts) |-> DictRow(fc[ts[n].cell][ts[n].slot])]]

GetFacesCell(fc) ==
  [t \in TypeKeys(fc) |->
     LET ts == TypeSlots(fc, t)
     IN  [n \in 1 .. Len(ts) |-> ts[n].cell]]

\* dict iteration order: "triangle" before "quad"
KeySeq(d) ==
  (IF "triangle" \in DOMAIN d THEN <<"triangle">> ELSE <<>>)
    \o (IF "quad" \in DOMAIN d THEN <<"quad">> ELSE <<>>)

\* ------------------------------------------------------------------ normals, areas
\* _get_triangle_normals for one row and one islice
TriangleNormal(row, islice) ==
  Cross(VSub(points[row[islice[2]]], points[row[islice[1]]]),
        VSub(points[row[islice[3]]], points[row[islice[1]]]))

\* normals /= normals_mag: raw / sqrt(mag2), NaN when mag2 = 0
UnitNormal(row) ==
  LET raw == TriangleNormal(row, <<1, 2, 3>>)
  IN  [raw |-> raw, mag2 |-> Dot(raw, raw)]

\* areas: 0.5 * (sqrt(h1) + sqrt(h2)), h2 from the second triangle of a quad
FaceArea(row) ==
  LET n1 == TriangleNormal(row, <<1, 2, 3>>)
      n2 == TriangleNormal(row, <<1, 3, 4>>)
  IN  [h1 |-> Dot(n1, n1), h2 |-> IF Len(row) = 4 THEN Dot(n2, n2) ELSE 0]

\* numpy.concatenate over the dictionary's values
RECURSIVE ConcatKeys(_, _)
ConcatKeys(d, ks) ==
  IF ks = <<>> THEN <<>> ELSE d[Head(ks)] \o ConcatKeys(d, Tail(ks))

\* the reorganizing loop: what cell i gets appended, in order
PerCell(iface, vals, i) ==
  LET idx == SelectSeq([n \in 1 .. Len(iface) |-> n], LAMBDA n : iface[n] = i)
  IN  [n \in 1 .. Len(idx) |-> vals[idx[n]]]

\* ------------------------------------------------------------------ connections
\* line 143 without the visited test
EmitsVisitedToo(j, visited) == j >= 0

\* line 143
Emits(j, visited) == j >= 0 /\ j \notin visited

\* the slots of cell i that append a connection
EmitSlots(i, visited) == SelectSeq(SlotSeq, LAMBDA k : Emits(neighbors[i][k], visited))

\* what one pass of the inner loop appends
ConnOf(i, k) ==
  [i |-> i, j |-> neighbors[i][k], iface |-> k,
   centers |-> <<nodes[i], nodes[neighbors[i][k]]>>,
   int_point |-> points[ValidPart(faces[i][k])[1]],
   int_normal |-> face_normals[i][k],
   area |-> face_areas[i][k],
   bounds |-> <<bc[i], bc[neighbors[i][k]]>>]

\* (neighbor >= 0).any()
HasNeighbor(i) == \E k \in Slots : neighbors[i][k] >= 0

\* ------------------------------------------------------------------ derived columns
\* numpy.diff(centers, axis=1)[:, 0]
LineOf(c) == VSub(c.centers[2], c.centers[1])

NonZero(v) == {a \in 1 .. 3 : v[a] # 0}

\* mask.argmax(axis=1), 0-based: the first True of the row, 0 when none is
ArgMax(mask) ==
  IF mask = {} THEN 0 ELSE (CHOOSE a \in mask : \A b \in mask : a <= b) - 1

\* line 303 without numpy.where
IsotArgmaxOnly(line) == ArgMax(NonZero(line)) + 1

\* _isot, for one row: numpy.where(mask.sum() == 1, mask.argmax() + 1, 1)
Isot(line) ==
  IF Cardinality(NonZero(line)) = 1 THEN ArgMax(NonZero(line)) + 1 ELSE 1

\* numpy.dot(lines, g_vec) / numpy.linalg.norm(lines, axis=1)
Angle(line) == [num |-> line[3], len2 |-> Dot(line, line)]

\* line 178, 179, 291: the constant 1.0e-9
Tiny == [tiny |-> TRUE]

\* numpy.linalg.norm(centers[:, side] - fp): |t| * |line| on side 1 and
\* |1 - t| * |line| on side 2, where t = a / b of _intersection_line_plane
LineDistance(c, side) ==
  LET a == Dot(VSub(c.int_point, c.centers[1]), c.int_normal.raw)
      b == Dot(LineOf(c), c.int_normal.raw)
  IN  [kind |-> "line",
       num |-> IF side = 1 THEN Abs(a) ELSE Abs(b - a),
       den |-> Abs(b),
       len2 |-> Dot(LineOf(c), LineOf(c)),
       mag2 |-> c.int_normal.mag2]

\* numpy.abs(_dot(center - int_points, int_normals))
PlaneDistance(c, side) ==
  [kind |-> "orthogonal",
   num |-> Abs(Dot(VSub(c.centers[side], c.int_point), c.int_normal.raw)),
   mag2 |-> c.int_normal.mag2]

\* numpy.where(mask, 1.0e-9, distance)
Where(mask, a, b) == IF mask THEN a ELSE b

\* the distances with the masks of the two sides exchanged
DistanceOtherMask(c, side, mode) ==
  IF mode = "line"
  THEN Where(c.bounds[3 - side], Tiny, LineDistance(c, side))
  ELSE Where(c.bounds[3 - side], Tiny, PlaneDistance(c, side))

\* d1 (side 1) and d2 (side 2) of one connection
Distance(c, side, mode) ==
  IF mode = "line"
  THEN Where(c.bounds[side], Tiny, LineDistance(c, side))
  ELSE Where(c.bounds[side], Tiny, PlaneDistance(c, side))

\* one record of the CONNE block
ConneRecord(c, mode) ==
  [kind |-> "conne", id1 |-> c.i, id2 |-> c.j, isot |-> Isot(LineOf(c)),
   d1 |-> Distance(c, 1, mode), d2 |-> Distance(c, 2, mode),
   area |-> c.area, angle |-> Angle(LineOf(c))]

\* the ELEME records with the cells taken from the last to the first
ElemeRecordReversed(i) ==
  [kind |-> "eleme", id |-> NCells - 1 - i, scaled |-> bc[NCells - 1 - i],
   node |-> nodes[NCells - 1 - i]]

\* one record of the ELEME block: the volume is scaled by 1.0e50 when bc is set
ElemeRecord(i) ==
  [kind |-> "eleme", id |-> i, scaled |-> bc[i], node |-> nodes[i]]

Keyword(k) == [kind |-> "keyword", keyword |-> k]
Blank == [kind |-> "blank"]

\* ------------------------------------------------------------------ write
\* an exception leaves write: the with statement closes the file if it is open
Raise(e) ==
  /\ pc' = "raised"
  /\ err' = e
  /\ fstate' = IF fstate = "open" THEN "closed" ELSE fstate

\* write, lines 32-36: the assert (skipped when Python runs with -O), the
\* concatenations and open()
Write ==
  /\ pc = "start"
  /\ \E debug \in BOOLEAN :
       IF debug /\ nodal_distance \notin {"line", "orthogonal"}
       THEN Raise("AssertionError")
       ELSE /\ pc' = "eleme"
            /\ fstate' = "open"
            /\ UNCHANGED err
  /\ UNCHANGED <<nonMesh, meshInput, f, log, faces_dict, faces_cell, face_normals, face_areas,
                 icell, cell_list, conn, rows>>

\* block("ELEME") around _write_eleme: the keyword line, one record per cell
\* in index order, the blank line
WriteEleme ==
  /\ pc = "eleme"
  /\ f' = (Append(f, Keyword("ELEME")) \o [n \in 1 .. NCells |-> ElemeRecord(n - 1)])
            \o <<Blank>>
  /\ pc' = "conne_header"
  /\ UNCHANGED <<nonMesh, meshInput, err, fstate, log, faces_dict, faces_cell, face_normals,
                 face_areas, icell, cell_list, conn, rows>>

\* block("CONNE"), line 53
ConneHeader ==
  /\ pc = "conne_header"
  /\ f' = Append(f, Keyword("CONNE"))
  /\ pc' = "get_faces"
  /\ UNCHANGED <<nonMesh, meshInput, err, fstate, log, faces_dict, faces_cell, face_normals,
                 face_areas, icell, cell_list, conn, rows>>

\* _get_faces
GetFaces ==
  /\ pc = "get_faces"
  /\ faces_dict' = GetFacesDict(faces)
  /\ faces_cell' = GetFacesCell(faces)
  /\ pc' = "normals_areas"
  /\ UNCHANGED <<nonMesh, meshInput, err, f, fstate, log, face_normals, face_areas,
                 icell, cell_list, conn, rows>>

\* _get_face_normals_areas
GetFaceNormalsAreas ==
  /\ pc = "normals_areas"
  /\ IF DOMAIN faces_dict = {}
     THEN \* numpy.concatenate of an empty list
          /\ Raise("ValueError")
          /\ UNCHANGED <<face_normals, face_areas>>
     ELSE IF "quad" \notin DOMAIN faces_dict
     THEN \* faces_dict["quad"], line 256
          /\ Raise("KeyError")
          /\ UNCHANGED <<face_normals, face_areas>>
     ELSE LET rowsAll == ConcatKeys(faces_dict, KeySeq(faces_dict))
              iface == ConcatKeys(faces_cell, KeySeq(faces_cell))
              normals == [n \in 1 .. Len(rowsAll) |-> UnitNormal(rowsAll[n])]
              areas == [n \in 1 .. Len(rowsAll) |-> FaceArea(rowsAll[n])]
          IN  /\ face_normals' = [i \in Cells |-> PerCell(iface, normals, i)]
              /\ face_areas' = [i \in Cells |-> PerCell(iface, areas, i)]
              /\ pc' = "conne_loop"
              /\ UNCHANGED <<err, fstate>>
  /\ UNCHANGED <<nonMesh, meshInput, f, log, faces_dict, faces_cell, icell, cell_list, conn, rows>>

\* one pass of the outer loop of _write_conne, lines 140-164
ConneCell ==
  /\ pc = "conne_loop"
  /\ icell < NCells
  /\ IF HasNeighbor(icell)
     THEN LET es == EmitSlots(icell, cell_list)
          IN  IF \E n \in 1 .. Len(es) : Len(face_normals[icell]) < es[n]
              THEN \* face_normals[i][iface], line 153
                   /\ Raise("IndexError")
                   /\ UNCHANGED <<conn, log, cell_list, icell>>
              ELSE /\ conn' = conn \o [n \in 1 .. Len(es) |-> ConnOf(icell, es[n])]
                   /\ cell_list' = cell_list \cup {icell}
                   /\ icell' = icell + 1
                   /\ UNCHANGED <<log, pc, err, fstate>>
     ELSE /\ log' = Append(log, [warning |-> "not connected", id |-> icell])
          /\ cell_list' = cell_list \cup {icell}
          /\ icell' = icell + 1
          /\ UNCHANGED <<conn, pc, err, fstate>>
  /\ UNCHANGED <<nonMesh, meshInput, f, faces_dict, faces_cell, face_normals, face_areas, rows>>

\* lines 166-182: the arrays, lines, isot, angles and the nodal distances
Derive ==
  /\ pc = "conne_loop"
  /\ icell = NCells
  /\ IF conn = <<>>
     THEN \* numpy.diff(centers, axis=1) of an array of shape (0,)
          /\ Raise("AxisError")
          /\ UNCHANGED rows
     ELSE IF nodal_distance \notin {"line", "orthogonal"}
     THEN \* d1 is not bound, line 186
          /\ Raise("UnboundLocalError")
          /\ UNCHANGED rows
     ELSE /\ rows' = [n \in 1 .. Len(conn) |-> ConneRecord(conn[n], nodal_distance)]
          /\ pc' = "conne_records"
          /\ UNCHANGED <<err, fstate>>
  /\ UNCHANGED <<nonMesh, meshInput, f, log, faces_dict, faces_cell, face_normals, face_areas,
                 icell, cell_list, conn>>

\* lines 185-199
WriteConne ==
  /\ pc = "conne_records"
  /\ f' = f \o rows
  /\ pc' = "conne_footer"
  /\ UNCHANGED <<nonMesh, meshInput, err, fstate, log, faces_dict, faces_cell, face_normals,
                 face_areas, icell, cell_list, conn, rows>>

\* block("CONNE"), line 55, and the end of the with statement
ConneFooter ==
  /\ pc = "conne_footer"
  /\ f' = Append(f, Blank)
  /\ pc' = "done"
  /\ fstate' = "closed"
  /\ UNCHANGED <<nonMesh, meshInput, err, log, faces_dict, faces_cell, face_normals,
                 face_areas, icell, cell_list, conn, rows>>

Init ==
  /\ neighbors \in [Cells -> [Slots -> {-1} \cup Cells]]
  /\ Conforming(neighbors)
  /\ \E layout \in Layouts :
       faces = [i \in Cells |-> [k \in Slots |-> LayoutFace(layout, k)]]
  /\ \A i \in Cells : \A k \in Slots : neighbors[i][k] >= 0 => NumVert(faces[i][k]) > 0
  /\ nodes \in CenterTables
  /\ bc \in [Cells -> BOOLEAN]
  /\ nodal_distance \in Modes
  /\ pc = "start"
  /\ err = "none"
  /\ f = <<>>
  /\ fstate = "none"
  /\ log = <<>>
  /\ faces_dict = <<>>
  /\ faces_cell = <<>>
  /\ face_normals = <<>>
  /\ face_areas = <<>>
  /\ icell = 0
  /\ cell_list = {}
  /\ conn = <<>>
  /\ rows = <<>>
  /\ IdleCheck /\ IdleFloat /\ IdleToStr /\ IdleRecord /\ IdleIsot /\ IdleTecplot

Next ==
  \/ Write
  \/ WriteEleme
  \/ ConneHeader
  \/ GetFaces
  \/ GetFaceNormalsAreas
  \/ ConneCell
  \/ Derive
  \/ WriteConne
  \/ ConneFooter

Spec == Init /\ [][Next]_vars

\* ------------------------------------------------------------------ faces alone
\* lines 127-128 of _write_conne: _get_faces, then _get_face_normals_areas, on
\* a mesh whose cells take their face layouts independently
InitFaces ==
  /\ neighbors = [i \in Cells |-> [k \in Slots |-> -1]]
  /\ \E layout \in [Cells -> FaceLayouts] :
       faces = [i \in Cells |-> [k \in Slots |-> LayoutFace(layout[i], k)]]
  /\ nodes \in CenterTables
  /\ bc = [i \in Cells |-> FALSE]
  /\ nodal_distance = "line"
  /\ pc = "get_faces"
  /\ err = "none"
  /\ f = <<>>
  /\ fstate = "none"
  /\ log = <<>>
  /\ faces_dict = <<>>
  /\ faces_cell = <<>>
  /\ face_normals = <<>>
  /\ face_areas = <<>>
  /\ icell = 0
  /\ cell_list = {}
  /\ conn = <<>>
  /\ rows = <<>>
  /\ IdleCheck /\ IdleFloat /\ IdleToStr /\ IdleRecord /\ IdleIsot /\ IdleTecplot

NextFaces ==
  \/ GetFaces
  \/ GetFaceNormalsAreas

SpecFaces == InitFaces /\ [][NextFaces]_vars

\* ------------------------------------------------------------------ _isot alone
\* the centers of the two cells of one connection, on a small grid
MaxCoord == 1

Coords == 0 .. MaxCoord

GridPoints == {<<x, y, z>> : x \in Coords, y \in Coords, z \in Coords}

\* lines 172-173: lines = numpy.diff(centers, axis=1)[:, 0]; isot = _isot(lines)
IsotCall ==
  /\ is_pc = "called"
  /\ is_out' = Isot(LineOf([centers |-> is_centers]))
  /\ is_pc' = "returned"
  /\ UNCHANGED is_centers
  /\ UNCHANGED <<meshVars, checkVars, floatVars, toStrVars, recordVars, tecplotVars>>

InitIsot ==
  /\ is_centers \in {<<near, far>> : near \in GridPoints, far \in GridPoints}
  /\ is_pc = "called"
  /\ is_out = 0
  /\ IdleMesh /\ IdleCheck /\ IdleFloat /\ IdleToStr /\ IdleRecord /\ IdleTecplot

NextIsot == IsotCall

SpecIsot == InitIsot /\ [][NextIsot]_vars

\* ------------------------------------------------------------------ check_parameters
\* A Python value is a record with its class; a dict carries its items, in
\* insertion order, as a sequence of [k, v]; a list carries its elements.
MaxParams == 2

\* dtypes["MESHM"]
input_types == [type |-> "str", parameters |-> "array_like", angle |-> "scalar"]

\* str_to_dtype, with the subclasses isinstance accepts (bool is an int)
StrToDtype(tag) ==
  CASE tag = "str" -> {"str"}
    [] tag = "array_like" -> {"list", "tuple", "ndarray"}
    [] tag = "scalar" -> {"int", "float", "bool"}

ParamKeys == {"type", "angle", "color"}
ValueClasses == {"float", "str", "NoneType"}

Leaf(c) == [cls |-> c]
Dict(items) == [cls |-> "dict", items |-> items]

DistinctKeys(items) ==
  \A m, n \in 1 .. Len(items) : m # n => items[m].k # items[n].k

\* the dicts of parameters to validate
Containers ==
  { Dict(items) :
      items \in { it \in UNION { [1 .. n -> [k : ParamKeys, v : {Leaf(c) : c \in ValueClasses}]]
                                 : n \in 0 .. MaxParams } : DistinctKeys(it) } }

HasKey(d, key) == \E n \in 1 .. Len(d.items) : d.items[n].k = key
GetKey(d, key) == d.items[CHOOSE n \in 1 .. Len(d.items) : d.items[n].k = key].v

\* v = v[key] for key in ks; ok is FALSE on a KeyError
RECURSIVE Descend(_, _, _)
Descend(v, ks, path) ==
  IF ks = <<>> THEN [ok |-> TRUE, params |-> v, path |-> path]
  ELSE IF ~HasKey(v, Head(ks)) THEN [ok |-> FALSE]
  ELSE Descend(GetKey(v, Head(ks)), Tail(ks), Append(path, Head(ks)))

\* line 235
IsUnknown(k) == k \notin DOMAIN input_types

\* line 245 without "v is None"
TypeOkNoneRejected(v, tag) == v.cls \in StrToDtype(tag)

\* line 245
TypeOk(v, tag) == v.cls = "NoneType" \/ v.cls \in StrToDtype(tag)

\* the dict branch with the loop ended, not continued, by a KeyError
RECURSIVE ListJobsStopAtMissing(_, _, _)
ListJobsStopAtMissing(params, ks, n) ==
  IF params.cls = "dict"
  THEN IF n > Len(params.items) THEN <<>>
       ELSE LET d == Descend(params.items[n].v, Tail(ks), <<Head(ks), params.items[n].k>>)
            IN  IF d.ok
                THEN <<[params |-> d.params, path |-> d.path]>>
                       \o ListJobsStopAtMissing(params, ks, n + 1)
                ELSE <<>>
  ELSE IF n > Len(params.elems) THEN <<>>
       ELSE <<[params |-> params.elems[n], path |-> <<Head(ks), n - 1>>]>>
              \o ListJobsStopAtMissing(params, ks, n + 1)

\* the calls of _check_parameters the wrapper makes, in order: for a dict of
\* dicts the entries without the nested keys are skipped (except KeyError)
RECURSIVE ListJobs(_, _, _)
ListJobs(params, ks, n) ==
  IF params.cls = "dict"
  THEN IF n > Len(params.items) THEN <<>>
       ELSE LET d == Descend(params.items[n].v, Tail(ks), <<Head(ks), params.items[n].k>>)
            IN  (IF d.ok THEN <<[params |-> d.params, path |-> d.path]>> ELSE <<>>)
                  \o ListJobs(params, ks, n + 1)
  ELSE IF n > Len(params.elems) THEN <<>>
       ELSE <<[params |-> params.elems[n], path |-> <<Head(ks), n - 1>>]>>
              \o ListJobs(params, ks, n + 1)

\* the first position at or after (job, item) that holds an item
RECURSIVE SkipEmpty(_, _)
SkipEmpty(jobs, job) ==
  IF job > Len(jobs) \/ Len(jobs[job].params.items) > 0 THEN job
  ELSE SkipEmpty(jobs, job + 1)

\* line 291 is reached: every call of _check_parameters has returned
ValidationDoneAtEntry == TRUE

ValidationDone == cp_job > Len(cp_jobs)

\* wrapper, lines 259-289: which dicts are validated
CpWrapper ==
  /\ cp_pc = "called"
  /\ IF keys = <<>>
     THEN /\ cp_jobs' = <<[params |-> parameters, path |-> <<>>]>>
          /\ cp_job' = SkipEmpty(cp_jobs', 1)
          /\ cp_pc' = "check"
          /\ UNCHANGED cp_err
     ELSE IF ~HasKey(parameters, keys[1])
     THEN \* parameters[keys[0]], line 263
          /\ cp_pc' = "raised"
          /\ cp_err' = [type |-> "KeyError", key |-> keys[1]]
          /\ UNCHANGED <<cp_jobs, cp_job>>
     ELSE IF is_list
     THEN /\ cp_jobs' = ListJobs(GetKey(parameters, keys[1]), keys, 1)
          /\ cp_job' = SkipEmpty(cp_jobs', 1)
          /\ cp_pc' = "check"
          /\ UNCHANGED cp_err
     ELSE LET d == Descend(GetKey(parameters, keys[1]), Tail(keys), <<keys[1]>>)
          IN  IF d.ok
              THEN /\ cp_jobs' = <<[params |-> d.params, path |-> d.path]>>
                   /\ cp_job' = SkipEmpty(cp_jobs', 1)
                   /\ cp_pc' = "check"
                   /\ UNCHANGED cp_err
              ELSE \* params[key], line 286
                   /\ cp_pc' = "raised"
                   /\ cp_err' = [type |-> "KeyError", key |-> "nested"]
                   /\ UNCHANGED <<cp_jobs, cp_job>>
  /\ UNCHANGED <<parameters, keys, is_list, cp_item, cp_log, cp_calls>>
  /\ UNCHANGED <<meshVars, floatVars, toStrVars, recordVars, isotVars, tecplotVars>>

\* one pass of the loop of _check_parameters, lines 232-252
CpCheckKey ==
  /\ cp_pc = "check"
  /\ cp_job <= Len(cp_jobs)
  /\ LET job == cp_jobs[cp_job]
         item == job.params.items[cp_item]
         last == cp_item = Len(job.params.items)
     IN  IF ~IsUnknown(item.k) /\ ~TypeOk(item.v, input_types[item.k])
         THEN /\ cp_pc' = "raised"
              /\ cp_err' = [type |-> "TypeError", key |-> item.k, path |-> job.path,
                            expected |-> input_types[item.k]]
              /\ UNCHANGED <<cp_job, cp_item, cp_log>>
         ELSE /\ cp_log' = IF IsUnknown(item.k)
                           THEN Append(cp_log, [key |-> item.k, path |-> job.path])
                           ELSE cp_log
              /\ cp_item' = IF last THEN 1 ELSE cp_item + 1
              /\ cp_job' = IF last THEN SkipEmpty(cp_jobs, cp_job + 1) ELSE cp_job
              /\ UNCHANGED <<cp_pc, cp_err>>
  /\ UNCHANGED <<parameters, keys, is_list, cp_jobs, cp_calls>>
  /\ UNCHANGED <<meshVars, floatVars, toStrVars, recordVars, isotVars, tecplotVars>>

\* out = func(parameters, ...), line 291
CpCall ==
  /\ cp_pc = "check"
  /\ ValidationDone
  /\ cp_calls' = Append(cp_calls, parameters)
  /\ cp_pc' = "returned"
  /\ UNCHANGED <<parameters, keys, is_list, cp_jobs, cp_job, cp_item, cp_log, cp_err>>
  /\ UNCHANGED <<meshVars, floatVars, toStrVars, recordVars, isotVars, tecplotVars>>

\* a decorated function is called with a dict of parameters, or with a dict
\* that holds (or lacks) the dict of parameters under keys[0]
InitCheck ==
  /\ \E c \in Containers : \E shape \in {"flat", "nested", "missing"} :
       /\ keys = IF shape = "flat" THEN <<>> ELSE <<"MESHM">>
       /\ parameters =
            CASE shape = "flat" -> c
              [] shape = "nested" -> Dict(<<[k |-> "MESHM", v |-> c]>>)
              [] shape = "missing" -> Dict(<<[k |-> "ROCKS", v |-> c]>>)
  /\ is_list = FALSE
  /\ cp_pc = "called"
  /\ cp_jobs = <<>>
  /\ cp_job = 1
  /\ cp_item = 1
  /\ cp_log = <<>>
  /\ cp_err = [type |-> "none"]
  /\ cp_calls = <<>>
  /\ IdleMesh /\ IdleFloat /\ IdleToStr /\ IdleRecord /\ IdleIsot /\ IdleTecplot

NextCheck ==
  \/ CpWrapper
  \/ CpCheckKey
  \/ CpCall

SpecCheck == InitCheck /\ [][NextCheck]_vars

\* ------------------------------------------------------------------ check_parameters, is_list
\* a repeated block: a dict of named entries, or a list of entries
MaxEntries == 3

List(elems) == [cls |-> "list", elems |-> elems]

\* the dicts of parameters of one entry
EntryContainers == {c \in Containers : Len(c.items) <= 1}

\* the entries of a dict of dicts: the parameters sit under the nested key,
\* or the entry has no nested key (and holds a mistyped "angle" instead)
NestedKey == "initial_condition"

Nested(c) == Dict(<<[k |-> NestedKey, v |-> c]>>)

Lacking == Dict(<<[k |-> "angle", v |-> Leaf("str")]>>)

Entries == {Nested(c) : c \in EntryContainers} \cup {Lacking}

EntryNames == <<"rock1", "rock2", "rock3", "rock4", "rock5">>

\* a function decorated with is_list=True and keys=[block, nested key] is
\* called with a dict of entries, or with a list of dicts of parameters
InitCheckList ==
  /\ keys = <<"rocks", NestedKey>>
  /\ \E n \in 0 .. MaxEntries :
       \/ \E es \in [1 .. n -> Entries] :
            parameters =
              Dict(<<[k |-> "rocks",
                      v |-> Dict([m \in 1 .. n |-> [k |-> EntryNames[m], v |-> es[m]]])]>>)
       \/ \E es \in [1 .. n -> EntryContainers] :
            parameters = Dict(<<[k |-> "rocks", v |-> List(es)]>>)
  /\ is_list = TRUE
  /\ cp_pc = "called"
  /\ cp_jobs = <<>>
  /\ cp_job = 1
  /\ cp_item = 1
  /\ cp_log = <<>>
  /\ cp_err = [type |-> "none"]
  /\ cp_calls = <<>>
  /\ IdleMesh /\ IdleFloat /\ IdleToStr /\ IdleRecord /\ IdleIsot /\ IdleTecplot

SpecCheckList == InitCheckList /\ [][NextCheck]_vars

\* ------------------------------------------------------------------ str2float
\* A text is a sequence of characters.  A float is kept exact, as m * 10^e
\* with m an integer without trailing zeros.
MaxExpDigits == 3
\* the exponents of the inputs stay inside the range of a double
MaxExponent == 300

DigitChars == <<"0", "1", "2", "3", "4", "5", "6", "7", "8", "9">>
IsDigit(c) == \E d \in 1 .. 10 : DigitChars[d] = c
DigitVal(c) == (CHOOSE d \in 1 .. 10 : DigitChars[d] = c) - 1

IsDigits(s) == Len(s) >= 1 /\ \A k \in 1 .. Len(s) : IsDigit(s[k])

RECURSIVE DigitsVal(_)
DigitsVal(s) ==
  IF s = <<>> THEN 0
  ELSE 10 * DigitsVal(SubSeq(s, 1, Len(s) - 1)) + DigitVal(s[Len(s)])

RECURSIVE Norm(_, _)
Norm(m, e) ==
  IF m = 0 THEN [kind |-> "float", m |-> 0, e |-> 0]
  ELSE IF m % 10 = 0 THEN Norm(m \div 10, e + 1)
  ELSE [kind |-> "float", m |-> m, e |-> e]

HasSign(s) == Len(s) >= 1 /\ s[1] \in {"+", "-"}
Unsigned(s) == IF HasSign(s) THEN Tail(s) ELSE s
SignOf(s) == IF HasSign(s) /\ s[1] = "-" THEN -1 ELSE 1

ValueError == [kind |-> "raise", err |-> "ValueError"]

\* float(s) for a text of signs, digits, "." and "e": an optional sign, digits
\* with at most one point, then optionally "e", an optional sign and digits
PyFloat(s) ==
  LET epos == {k \in 1 .. Len(s) : s[k] \in {"e", "E"}}
      cut == IF epos = {} THEN Len(s) + 1 ELSE CHOOSE k \in epos : TRUE
      mant == Unsigned(SubSeq(s, 1, cut - 1))
      expo == SubSeq(s, cut + 1, Len(s))
      dots == {k \in 1 .. Len(mant) : mant[k] = "."}
      dot == IF dots = {} THEN Len(mant) + 1 ELSE CHOOSE k \in dots : TRUE
      digits == SubSeq(mant, 1, dot - 1) \o SubSeq(mant, dot + 1, Len(mant))
      frac == IF dots = {} THEN 0 ELSE Len(mant) - dot
  IN  IF \/ Cardinality(epos) > 1
         \/ Cardinality(dots) > 1
         \/ ~IsDigits(digits)
         \/ (epos # {} /\ ~IsDigits(Unsigned(expo)))
      THEN ValueError
      ELSE Norm(SignOf(SubSeq(s, 1, cut - 1)) * DigitsVal(digits),
                (IF epos = {} THEN 0 ELSE SignOf(expo) * DigitsVal(Unsigned(expo))) - frac)

\* s[:-4]
Significand(s) == SubSeq(s, 1, Len(s) - 4)

\* s[-3:]
ExponentLastThree(s) == SubSeq(s, IF Len(s) > 3 THEN Len(s) - 2 ELSE 1, Len(s))

\* s[-4:]
Exponent(s) == SubSeq(s, IF Len(s) > 4 THEN Len(s) - 3 ELSE 1, Len(s))

\* str2float
Str2Float(s) ==
  IF PyFloat(s).kind = "float" THEN PyFloat(s)
  ELSE PyFloat((Significand(s) \o <<"e">>) \o Exponent(s))

Significands ==
  { <<"1", ".", "2", "3", "4">>, <<"0", ".", "0", "0", "0", "1">>,
    <<"-", "2", ".", "5">>, <<"1", "2">> }

ExpDigitTexts ==
  { d \in UNION { [1 .. n -> {"0", "1", "5"}] : n \in 1 .. MaxExpDigits } :
      DigitsVal(d) <= MaxExponent }

\* the fields read_record hands to str2float: a significand, "e" or nothing,
\* a sign, the digits of the exponent
FloatTexts ==
  { ((sig \o mark) \o <<sign>>) \o d :
      sig \in Significands, mark \in {<<>>, <<"e">>}, sign \in {"+", "-"},
      d \in ExpDigitTexts }

Str2FloatCall ==
  /\ sf_pc = "called"
  /\ sf_out' = Str2Float(sf_s)
  /\ sf_pc' = "done"
  /\ UNCHANGED sf_s
  /\ UNCHANGED <<meshVars, checkVars, toStrVars, recordVars, isotVars, tecplotVars>>

InitFloat ==
  /\ sf_s \in FloatTexts
  /\ sf_pc = "called"
  /\ sf_out = [kind |-> "none"]
  /\ IdleMesh /\ IdleCheck /\ IdleToStr /\ IdleRecord /\ IdleIsot /\ IdleTecplot

NextFloat == Str2FloatCall

SpecFloat == InitFloat /\ [][NextFloat]_vars

\* ------------------------------------------------------------------ to_str, write_record
\* A value is None, a str of some length, or the float +-10^k.  A format is
\* "{:>n.pf}", "{:>nf}", "{:>n.pe}" or "{:>ns}": its type, its width n, and its
\* precision p (-1 when it has none).  A text is kept as its length, its
\* notation and the precision it was formatted with.
LineWidth == 80

Max(a, b) == IF a > b THEN a ELSE b
Min(a, b) == IF a < b THEN a ELSE b

RECURSIVE NDigits(_)
NDigits(n) == IF n < 10 THEN 1 ELSE 1 + NDigits(n \div 10)

NegLen(x) == IF x.neg THEN 1 ELSE 0

\* the text of a format with a minimum width
Text(form, len, n, p) == [kind |-> "text", form |-> form, len |-> Max(len, n), prec |-> p]

\* len("{:.pf}".format(x))
FixedLen(x, p) ==
  NegLen(x) + (IF x.k >= 0 THEN x.k + 1 ELSE 1) + (IF p > 0 THEN p + 1 ELSE 0)

\* len("{:.pe}".format(x))
SciLen(x, p) ==
  NegLen(x) + 1 + (IF p > 0 THEN p + 1 ELSE 0) + 2 + Max(2, NDigits(Abs(x.k)))

\* len(str(float(x)))
ReprLen(x) ==
  NegLen(x) +
    (IF x.k >= 16 \/ x.k < -4 THEN 3 + Max(2, NDigits(Abs(x.k)))
     ELSE IF x.k >= 0 THEN x.k + 3
     ELSE 2 - x.k)

\* line 337: fmt.replace("f", "e").format(x)
SciFallback(x, fmt) == Text("sci", SciLen(x, fmt.p), fmt.n, fmt.p)

\* to_str
ToStr(x, fmt) ==
  IF x.cls = "float"
  THEN IF fmt.type = "f"
       THEN IF fmt.p >= 0
            THEN IF Max(FixedLen(x, fmt.p), fmt.n) > fmt.n
                 THEN SciFallback(x, fmt)
                 ELSE Text("fixed", FixedLen(x, fmt.p), fmt.n, fmt.p)
            ELSE IF ReprLen(x) > fmt.n
                 THEN IF fmt.n - 7 < 0
                      THEN ValueError
                      ELSE Text("sci", SciLen(x, fmt.n - 7), fmt.n, fmt.n - 7)
                 ELSE Text("repr", ReprLen(x), fmt.n, -1)
       ELSE IF fmt.type = "e"
            THEN Text("sci", SciLen(x, fmt.p), fmt.n, fmt.p)
            ELSE ValueError
  ELSE LET len == IF x.cls = "NoneType" THEN 0 ELSE x.len
       IN  Text("str", IF fmt.p >= 0 THEN Min(len, fmt.p) ELSE len, fmt.n, fmt.p)

FloatValues == {[cls |-> "float", neg |-> b, k |-> k] :
                  b \in BOOLEAN, k \in {-100, -5, -1, 0, 5, 9, 16, 100}}

ToStrValues ==
  {[cls |-> "NoneType"], [cls |-> "str", len |-> 3], [cls |-> "str", len |-> 12]}
    \cup FloatValues

ToStrFormats ==
  [type : {"f"}, n : {5, 10}, p : {-1, 0, 3, 4, 5}]
    \cup [type : {"e"}, n : {5, 10}, p : {3, 4}]
    \cup [type : {"s"}, n : {5, 10}, p : {-1}]

ToStrCall ==
  /\ ts_pc = "called"
  /\ ts_out' = ToStr(ts_x, ts_fmt)
  /\ ts_pc' = "done"
  /\ UNCHANGED <<ts_x, ts_fmt>>
  /\ UNCHANGED <<meshVars, checkVars, floatVars, recordVars, isotVars, tecplotVars>>

InitToStr ==
  /\ ts_x \in ToStrValues
  /\ ts_fmt \in ToStrFormats
  /\ ts_pc = "called"
  /\ ts_out = [kind |-> "none"]
  /\ IdleMesh /\ IdleCheck /\ IdleFloat /\ IdleRecord /\ IdleIsot /\ IdleTecplot

NextToStr == ToStrCall

SpecToStr == InitToStr /\ [][NextToStr]_vars

MaxData == 3
MaxFields == 2

\* "{:80}".format(...) cut to 80 characters
PadLineCut(texts) == LineWidth

RECURSIVE SumLen(_)
SumLen(texts) == IF texts = <<>> THEN 0 ELSE Head(texts).len + SumLen(Tail(texts))

\* len("{:80}".format("".join(data)))
PadLine(texts) == Max(LineWidth, SumLen(texts))

\* [to_str(d, f) for d, f in zip(data, fmt)]
Fields(data, fmt) == [k \in 1 .. Min(Len(data), Len(fmt)) |-> ToStr(data[k], fmt[k])]

Raises(texts) == \E k \in 1 .. Len(texts) : texts[k].kind = "raise"

Line(texts) == [fields |-> texts, content |-> SumLen(texts), len |-> PadLine(texts)]

\* data[ncol * i : min(ncol * i + ncol, n)]
Chunk(data, ncol, i) == SubSeq(data, ncol * i + 1, Min(ncol * i + ncol, Len(data)))

\* int(np.ceil(n / ncol))
NChunks(n, ncol) == (n + ncol - 1) \div ncol

\* write_record
WriteRecord(data, fmt, multi) ==
  IF ~multi
  THEN IF Raises(Fields(data, fmt)) THEN ValueError
       ELSE [kind |-> "lines", lines |-> <<Line(Fields(data, fmt))>>]
  ELSE IF Len(fmt) = 0 THEN [kind |-> "raise", err |-> "ZeroDivisionError"]
  ELSE IF \E i \in 0 .. NChunks(Len(data), Len(fmt)) - 1 :
            Raises(Fields(Chunk(data, Len(fmt), i), fmt))
       THEN ValueError
       ELSE [kind |-> "lines",
             lines |-> [i \in 1 .. NChunks(Len(data), Len(fmt)) |->
                          Line(Fields(Chunk(data, Len(fmt), i - 1), fmt))]]

RecordValues ==
  { [cls |-> "NoneType"], [cls |-> "str", len |-> 3],
    [cls |-> "float", neg |-> FALSE, k |-> 0],
    [cls |-> "float", neg |-> TRUE, k |-> 100] }

RecordFormats ==
  { [type |-> "f", n |-> 10, p |-> 3], [type |-> "f", n |-> 10, p |-> -1],
    [type |-> "e", n |-> 20, p |-> 4], [type |-> "s", n |-> 50, p |-> -1] }

WriteRecordCall ==
  /\ wr_pc = "called"
  /\ wr_out' = WriteRecord(wr_data, wr_fmt, wr_multi)
  /\ wr_pc' = "done"
  /\ UNCHANGED <<wr_data, wr_fmt, wr_multi>>
  /\ UNCHANGED <<meshVars, checkVars, floatVars, toStrVars, isotVars, tecplotVars>>

InitRecord ==
  /\ wr_data \in UNION { [1 .. n -> RecordValues] : n \in 0 .. MaxData }
  /\ wr_fmt \in UNION { [1 .. n -> RecordFormats] : n \in 0 .. MaxFields }
  /\ wr_multi \in BOOLEAN
  /\ wr_pc = "called"
  /\ wr_out = [kind |-> "none"]
  /\ IdleMesh /\ IdleCheck /\ IdleFloat /\ IdleToStr /\ IdleIsot /\ IdleTecplot

NextRecord == WriteRecordCall

SpecRecord == InitRecord /\ [][NextRecord]_vars

\* ------------------------------------------------------------------ read_output, tecplot
\* A file is the sequence of its lines; a line is kept as what the reader
\* tells apart: it starts with VARIABLES, it starts with ZONE, it holds
\* numbers, it holds other text, or it is blank.
MaxLines == 3
\* the largest number of rows a zone announces
MaxRows == 2

LineKinds == {"VARIABLES", "ZONE", "data", "text", "blank"}

TecplotFiles == UNION {[1 .. n -> LineKinds] : n \in 0 .. MaxLines}

\* f.readline().strip(): the empty string for a blank line and at the end of
\* the file
ReadLine == IF tp_pos < Len(tp_file) /\ tp_file[tp_pos + 1] # "blank"
            THEN tp_file[tp_pos + 1] ELSE ""

\* the position after f.readline()
Advance == IF tp_pos < Len(tp_file) THEN tp_pos + 1 ELSE tp_pos

\* an exception leaves read_output
TpRaise(e) == tp_pc' = "raised" /\ tp_err' = e

\* one pass of the loop that looks for the header, lines 184-187
TpHeader ==
  /\ tp_pc = "header"
  /\ tp_line' = ReadLine
  /\ tp_pos' = Advance
  /\ tp_pc' = IF ReadLine = "VARIABLES" THEN "variables" ELSE "header"
  /\ UNCHANGED <<tp_file, tp_zone, tp_left, tp_steps, tp_err>>
  /\ UNCHANGED <<meshVars, checkVars, floatVars, toStrVars, recordVars, isotVars>>

\* lines 190-194: _read_variables, which returns or raises, and the first
\* line after the header
TpVariables ==
  /\ tp_pc = "variables"
  /\ \E ok \in BOOLEAN :
       IF ok
       THEN /\ tp_line' = ReadLine
            /\ tp_pos' = Advance
            /\ tp_pc' = "zone"
            /\ UNCHANGED tp_err
       ELSE /\ TpRaise("ValueError")
            /\ UNCHANGED <<tp_line, tp_pos>>
  /\ UNCHANGED <<tp_file, tp_zone, tp_left, tp_steps>>
  /\ UNCHANGED <<meshVars, checkVars, floatVars, toStrVars, recordVars, isotVars>>

\* lines 197-208: a ZONE line is parsed by _read_zone, which gives a zone
\* with or without the key I; any other line keeps the zone of the pass
\* before, which is not bound in the first pass
TpZone ==
  /\ tp_pc = "zone"
  /\ IF tp_line = "ZONE"
     THEN \E hasI \in BOOLEAN : \E n \in 0 .. MaxRows :
            IF hasI
            THEN /\ tp_zone' = [bound |-> TRUE, I |-> n]
                 /\ tp_left' = n
                 /\ tp_pc' = "data"
                 /\ UNCHANGED tp_err
            ELSE /\ TpRaise("ValueError")
                 /\ UNCHANGED <<tp_zone, tp_left>>
     ELSE IF tp_zone.bound
     THEN /\ tp_left' = tp_zone.I
          /\ tp_pc' = "data"
          /\ UNCHANGED <<tp_zone, tp_err>>
     ELSE \* zone["I"], line 208
          /\ TpRaise("UnboundLocalError")
          /\ UNCHANGED <<tp_zone, tp_left>>
  /\ UNCHANGED <<tp_file, tp_pos, tp_line, tp_steps>>
  /\ UNCHANGED <<meshVars, checkVars, floatVars, toStrVars, recordVars, isotVars>>

\* one pass of the loop over the rows of the zone, lines 208-210: float()
\* raises on a token that is not a number; an empty line gives an empty row
TpData ==
  /\ tp_pc = "data"
  /\ tp_left > 0
  /\ tp_line' = ReadLine
  /\ tp_pos' = Advance
  /\ IF ReadLine \in {"data", ""}
     THEN /\ tp_left' = tp_left - 1
          /\ UNCHANGED <<tp_pc, tp_err>>
     ELSE /\ TpRaise("ValueError")
          /\ UNCHANGED tp_left
  /\ UNCHANGED <<tp_file, tp_zone, tp_steps>>
  /\ UNCHANGED <<meshVars, checkVars, floatVars, toStrVars, recordVars, isotVars>>

\* lines 211-221: the time step is appended, the next line is read, and an
\* empty line ends the loop
TpEndZone ==
  /\ tp_pc = "data"
  /\ tp_left = 0
  /\ tp_steps' = tp_steps + 1
  /\ tp_line' = ReadLine
  /\ tp_pos' = Advance
  /\ tp_pc' = IF ReadLine = "" THEN "returned" ELSE "zone"
  /\ UNCHANGED <<tp_file, tp_zone, tp_left, tp_err>>
  /\ UNCHANGED <<meshVars, checkVars, floatVars, toStrVars, recordVars, isotVars>>

\* read_output(filename, "tecplot") after open()
InitTecplot ==
  /\ tp_file \in TecplotFiles
  /\ tp_pos = 0
  /\ tp_pc = "header"
  /\ tp_line = ""
  /\ tp_zone = [bound |-> FALSE]
  /\ tp_left = 0
  /\ tp_steps = 0
  /\ tp_err = "none"
  /\ IdleMesh /\ IdleCheck /\ IdleFloat /\ IdleToStr /\ IdleRecord /\ IdleIsot

NextTecplot ==
  \/ TpHeader
  \/ TpVariables
  \/ TpZone
  \/ TpData
  \/ TpEndZone

\* the interpreter keeps running the function: a step that can be taken is taken
SpecTecplot == InitTecplot /\ [][NextTecplot]_vars /\ WF_vars(NextTecplot)

\* ------------------------------------------------------------------ claims, MESH writer
ValidMode == nodal_distance \in {"line", "orthogonal"}

\* the connection loop has visited every cell
LoopDone == icell = NCells

\* the unordered pairs of adjacent cells
AdjacentPairs ==
  {{i, neighbors[i][k]} : <<i, k>> \in {ik \in Cells \X Slots : neighbors[ik[1]][ik[2]] >= 0}}

ConnOfPair(P) == {n \in 1 .. Len(conn) : {conn[n].i, conn[n].j} = P}

LinesOfPair(P) ==
  {n \in 1 .. Len(f) : f[n].kind = "conne" /\ {f[n].id1, f[n].id2} = P}

C7_SlotAligned ==
  pc \in {"conne_loop", "conne_records", "conne_footer", "done"} =>
    \A i \in Cells : \A k \in Slots :
      neighbors[i][k] >= 0 =>
        /\ Len(face_normals[i]) >= k
        /\ face_normals[i][k] = UnitNormal(DictRow(faces[i][k]))
        /\ face_areas[i][k] = FaceArea(DictRow(faces[i][k]))

\* C8: a write with a nodal-distance mode other than "line" and "orthogonal"
\* fails, with a ValueError, and before the output file is opened.
C8_InvalidModeValueError ==
  ~ValidMode =>
    /\ pc # "done"
    /\ pc = "raised" => (err = "ValueError" /\ fstate = "none" /\ f = <<>>)

Warned(i) == \E n \in 1 .. Len(log) : log[n].id = i

\* C9: a write (with a valid mode) that has logged the warning of a cell
\* without neighbors does not fail, and when it is complete the cell has its
\* ELEME record and no CONNE record carries its label.
C9_IsolatedCellNonFatal ==
  \A i \in Cells :
    (ValidMode /\ Warned(i)) =>
      /\ pc # "raised"
      /\ pc = "done" =>
           /\ \E n \in 1 .. Len(f) : f[n].kind = "eleme" /\ f[n].id = i
           /\ \A n \in 1 .. Len(f) :
                f[n].kind = "conne" => (f[n].id1 # i /\ f[n].id2 # i)

\* the distance the code computes from the geometry alone
Geometric(c, side, mode) ==
  IF mode = "line" THEN LineDistance(c, side) ELSE PlaneDistance(c, side)

\* C10: in every connection record, derived or written, the nodal distance on
\* the side of a cell with the boundary-condition flag is the constant
\* 1.0e-9, in both modes, and the side of an unflagged cell has the distance
\* computed from the centers and the face.
C10_BoundarySideTiny ==
  /\ Len(rows) \in {0, Len(conn)}
  /\ \A n \in 1 .. Len(rows) :
       /\ rows[n].id1 = conn[n].i /\ rows[n].id2 = conn[n].j
       /\ rows[n].d1 =
            IF bc[rows[n].id1] THEN Tiny ELSE Geometric(conn[n], 1, nodal_distance)
       /\ rows[n].d2 =
            IF bc[rows[n].id2] THEN Tiny ELSE Geometric(conn[n], 2, nodal_distance)
  /\ pc = "done" => SelectSeq(f, LAMBDA l : l.kind = "conne") = rows

\* a written record between a flagged first cell and an unflagged second cell
C10_Witness ==
  /\ pc = "done"
  /\ \E n \in 1 .. Len(f) :
       /\ f[n].kind = "conne"
       /\ bc[f[n].id1] /\ ~bc[f[n].id2]
       /\ f[n].d1 = Tiny
       /\ f[n].d2 # Tiny

\* ------------------------------------------------------------------ claims, check_parameters
CpTerminal == cp_pc \in {"raised", "returned"}

\* a recognized key whose value is not None and not of the schema's type
Mistyped(item) ==
  /\ item.k \in {"type", "parameters", "angle"}
  /\ item.v.cls # "NoneType"
  /\ item.v.cls \notin StrToDtype(input_types[item.k])

Unrecognized(item) == item.k \notin {"type", "parameters", "angle"}

\* C2 as stated: a dict with a mistyped recognized key and an unrecognized
\* key gets a TypeError that names a mistyped key and a warning for the
\* unrecognized key, whatever the order of the keys.
C2_TypeErrorAndWarning ==
  (CpTerminal /\ Len(cp_jobs) = 1) =>
    LET items == cp_jobs[1].params.items
    IN  \A a, b \in 1 .. Len(items) :
          (Mistyped(items[a]) /\ Unrecognized(items[b])) =>
            /\ cp_err.type = "TypeError"
            /\ \E m \in 1 .. Len(items) : Mistyped(items[m]) /\ cp_err.key = items[m].k
            /\ \E l \in 1 .. Len(cp_log) : cp_log[l].key = items[b].k

\* C2 amended: the TypeError names the first mistyped key in the order of the
\* dict, and the warnings logged are those of the unrecognized keys that come
\* before it; without a mistyped key nothing is raised and every unrecognized
\* key has its warning.
C2_WarningsBeforeFirstMistyped ==
  (CpTerminal /\ Len(cp_jobs) = 1) =>
    LET items == cp_jobs[1].params.items
        path == cp_jobs[1].path
        bad == {m \in 1 .. Len(items) : Mistyped(items[m])}
        first == IF bad = {} THEN Len(items) + 1
                 ELSE CHOOSE m \in bad : \A m2 \in bad : m <= m2
        seen == SelectSeq(SubSeq(items, 1, first - 1), Unrecognized)
    IN  /\ cp_log = [l \in 1 .. Len(seen) |-> [key |-> seen[l].k, path |-> path]]
        /\ IF bad = {}
           THEN cp_err.type = "none"
           ELSE /\ cp_err.type = "TypeError"
                /\ cp_err.key = items[first].k
                /\ cp_err.path = path

\* an unrecognized key before a mistyped key: its warning, then the TypeError
C2_Witness ==
  /\ cp_pc = "raised"
  /\ Len(cp_jobs) = 1
  /\ LET items == cp_jobs[1].params.items
     IN  /\ Len(items) = 2
         /\ Unrecognized(items[1])
         /\ Mistyped(items[2])
  /\ cp_err.type = "TypeError"
  /\ Len(cp_log) = 1

\* C6: the wrapped function is called at most once, with the parameters it
\* was given, and only when every call of _check_parameters has returned
\* without error; after an exception it has not been called; and a wrapper
\* whose validation is complete calls it.
C6_CalledAfterValidation ==
  /\ Len(cp_calls) <= 1
  /\ cp_calls # <<>> =>
       /\ cp_calls[1] = parameters
       /\ cp_err.type = "none"
       /\ cp_pc = "returned"
       /\ cp_job > Len(cp_jobs)
       /\ \A j \in 1 .. Len(cp_jobs) : \A n \in 1 .. Len(cp_jobs[j].params.items) :
            ~Mistyped(cp_jobs[j].params.items[n])
  /\ cp_pc = "raised" => (cp_calls = <<>> /\ cp_err.type \in {"TypeError", "KeyError"})
  /\ cp_pc = "returned" => Len(cp_calls) = 1
  /\ (cp_pc = "check" /\ cp_job > Len(cp_jobs)) => ENABLED CpCall

\* the function has been called after the validation of a dict with a
\* recognized key
C6_Witness ==
  /\ cp_pc = "returned"
  /\ Len(cp_calls) = 1
  /\ \E j \in 1 .. Len(cp_jobs) : \E n \in 1 .. Len(cp_jobs[j].params.items) :
       ~Unrecognized(cp_jobs[j].params.items[n])

\* ------------------------------------------------------------------ claims, str2float
\* significand * 10^(signed exponent)
Shorthand(sig, sign, d) ==
  LET v == PyFloat(sig)
  IN  Norm(v.m, v.e + (IF sign = "-" THEN -1 ELSE 1) * DigitsVal(d))

\* C3 as stated: every text <significand><sign><exponent digits> without "e",
\* with one, two or three exponent digits, decodes to
\* significand * 10^(signed exponent).
C3_ShorthandDecoded ==
  sf_pc = "done" =>
    \A sig \in Significands : \A sign \in {"+", "-"} : \A d \in ExpDigitTexts :
      (Len(d) <= 3 /\ sf_s = (sig \o <<sign>>) \o d) => sf_out = Shorthand(sig, sign, d)

\* C3 amended: the text decodes to significand * 10^(signed exponent) when
\* the exponent has exactly three digits; with one or two exponent digits
\* ("1.234-5", "1.234+5") str2float raises ValueError.
C3_ThreeDigitShorthand ==
  sf_pc = "done" =>
    \A sig \in Significands : \A sign \in {"+", "-"} : \A d \in ExpDigitTexts :
      sf_s = (sig \o <<sign>>) \o d =>
        /\ Len(d) = 3 => sf_out = Shorthand(sig, sign, d)
        /\ Len(d) < 3 => sf_out = ValueError

\* "1.234-015" has been decoded to 1.234e-15 = 1234 * 10^-18
C3_Witness ==
  /\ sf_pc = "done"
  /\ sf_s = <<"1", ".", "2", "3", "4", "-", "0", "1", "5">>
  /\ sf_out = [kind |-> "float", m |-> 1234, e |-> -18]

\* ------------------------------------------------------------------ claims, write_record
\* C4: a float in a fixed-point field with precision p and width n whose
\* fixed-point text is longer than n is written in scientific notation, in
\* exactly n characters.
C4_FallbackFitsWidth ==
  (ts_pc = "done" /\ ts_x.cls = "float" /\ ts_fmt.type = "f" /\ ts_fmt.p >= 0
     /\ FixedLen(ts_x, ts_fmt.p) > ts_fmt.n) =>
    /\ ts_out.kind = "text"
    /\ ts_out.form = "sci"
    /\ ts_out.len = ts_fmt.n

\* C5 as stated: every line write_record returns has exactly 80 characters
\* before its newline.
C5_LinesExactly80 ==
  (wr_pc = "done" /\ wr_out.kind = "lines") =>
    \A l \in 1 .. Len(wr_out.lines) : wr_out.lines[l].len = 80

\* C5 amended: every line has at least 80 characters before its newline:
\* exactly 80 when the texts of its fields total at most 80 (the line is
\* padded), and all the characters of its fields when they total more than
\* 80 (the line is not truncated).
C5_LinesPaddedNotTruncated ==
  (wr_pc = "done" /\ wr_out.kind = "lines") =>
    \A l \in 1 .. Len(wr_out.lines) :
      LET line == wr_out.lines[l]
      IN  /\ line.len >= 80
          /\ line.content <= 80 => line.len = 80
          /\ line.content > 80 => line.len = line.content

\* a line of two 50-character fields, returned with its 100 characters
C5_Witness ==
  /\ wr_pc = "done"
  /\ wr_out.kind = "lines"
  /\ \E l \in 1 .. Len(wr_out.lines) :
       /\ Len(wr_out.lines[l].fields) = 2
       /\ wr_out.lines[l].content = 100
       /\ wr_out.lines[l].len = 100

\* ------------------------------------------------------------------ claims: _isot
\* the line vector of the call: far center minus near center
IsotLine == VSub(is_centers[2], is_centers[1])

\* C11: for every line vector, _isot returns the 1-based index of the axis
\* when the vector is nonzero along exactly one axis, and 1 when it is nonzero
\* along two or three axes or is the zero vector; the result is in {1, 2, 3}.
C11_IsotAxisOrOne ==
  is_pc = "returned" =>
    LET v == IsotLine
    IN  /\ (v[1] # 0 /\ v[2] = 0 /\ v[3] = 0) => is_out = 1
        /\ (v[1] = 0 /\ v[2] # 0 /\ v[3] = 0) => is_out = 2
        /\ (v[1] = 0 /\ v[2] = 0 /\ v[3] # 0) => is_out = 3
        /\ (v[1] # 0 /\ v[2] # 0) => is_out = 1
        /\ (v[1] # 0 /\ v[3] # 0) => is_out = 1
        /\ (v[2] # 0 /\ v[3] # 0) => is_out = 1
        /\ (v[1] = 0 /\ v[2] = 0 /\ v[3] = 0) => is_out = 1
        /\ is_out \in {1, 2, 3}

\* a line along -y alone gives 2
C11_Witness == is_pc = "returned" /\ IsotLine = <<0, -1, 0>> /\ is_out = 2

\* ------------------------------------------------------------------ claims: file layout
\* the kinds of the lines of a complete file, and the cells they are about
LineShape(r) ==
  CASE r.kind = "keyword" -> <<"keyword", r.keyword>>
    [] r.kind = "blank" -> <<"blank">>
    [] r.kind = "eleme" -> <<"eleme", r.id>>
    [] r.kind = "conne" -> <<"conne", r.id1, r.id2>>

ExpectedShape ==
  (((<<<<"keyword", "ELEME">>>> \o [n \in 1 .. NCells |-> <<"eleme", n - 1>>])
      \o <<<<"blank">>, <<"keyword", "CONNE">>>>)
     \o [n \in 1 .. Len(conn) |-> <<"conne", conn[n].i, conn[n].j>>])
    \o <<<<"blank">>>>

\* C12: the file holds, in this order and with nothing else, the ELEME keyword
\* line, one record per cell in cell-index order, a blank line, the CONNE
\* keyword line, the connection records in emission order, a blank line: at
\* every moment the lines written so far are the beginning of that sequence,
\* and a successful write has written all of it.
C12_BlocksInOrder ==
  /\ Len(f) <= Len(ExpectedShape)
  /\ \A n \in 1 .. Len(f) : LineShape(f[n]) = ExpectedShape[n]
  /\ pc = "done" => Len(f) = Len(ExpectedShape)

\* a finished file with a connection record between the CONNE keyword line
\* and the last blank line
C12_Witness ==
  /\ pc = "done"
  /\ Len(conn) >= 1
  /\ f[NCells + 3] = Keyword("CONNE")
  /\ f[NCells + 4].kind = "conne"
  /\ f[Len(f)] = Blank

\* ------------------------------------------------------------------ claims: check_parameters, is_list
\* the block under the top-level key, when it is a dict of entries
Block == GetKey(parameters, keys[1])

\* an entry with the nested key, and one whose parameters hold a mistyped key
HasPath(entry) == \E n \in 1 .. Len(entry.items) : entry.items[n].k = keys[2]

MistypedEntry(entry) ==
  \E n \in 1 .. Len(entry.items) :
    /\ entry.items[n].k = keys[2]
    /\ \E m \in 1 .. Len(entry.items[n].v.items) : Mistyped(entry.items[n].v.items[m])

\* C13: with is_list set and a dict of dicts under the top-level key, an entry
\* without the nested key is skipped without error (no KeyError leaves the
\* wrapper, and the function is called when no entry with the full path has a
\* mistyped key), and a mistyped key in any entry with the full path raises
\* TypeError wherever the skipped entries are.
C13_SkippedEntriesOthersValidated ==
  (CpTerminal /\ is_list /\ Block.cls = "dict") =>
    LET bad == {n \in 1 .. Len(Block.items) : MistypedEntry(Block.items[n].v)}
    IN  /\ cp_err.type # "KeyError"
        /\ bad # {} =>
             /\ cp_pc = "raised"
             /\ cp_err.type = "TypeError"
             /\ cp_calls = <<>>
        /\ bad = {} =>
             /\ cp_pc = "returned"
             /\ cp_calls = <<parameters>>

\* a skipped entry comes before an entry with a mistyped key, and the
\* TypeError is raised for the second one
C13_Witness ==
  /\ cp_pc = "raised"
  /\ is_list
  /\ Block.cls = "dict"
  /\ Len(Block.items) >= 2
  /\ ~HasPath(Block.items[1].v)
  /\ MistypedEntry(Block.items[2].v)
  /\ cp_err.type = "TypeError"
  /\ cp_err.path = <<"rocks", "rock2", NestedKey>>

\* ------------------------------------------------------------------ claims: faces
\* _get_face_normals_areas has returned
FacesDone == pc = "conne_loop"

\* raw / |raw| with |raw| = 0: the division 0 / 0
DividedByZero(normal) == normal.mag2 = 0

\* C14: for a face whose raw normal has zero magnitude,
\* _get_face_normals_areas divides nothing by zero: the normal is left as it
\* is (the zero vector, undivided) and the area is 0, and every other face
\* gets its raw normal divided by its magnitude.
C14_DegenerateFaceGuarded ==
  FacesDone =>
    \A i \in Cells : \A n \in 1 .. Len(face_normals[i]) :
      LET normal == face_normals[i][n]
      IN  /\ ~DividedByZero(normal)
          /\ normal.raw = <<0, 0, 0>> => face_areas[i][n] = [h1 |-> 0, h2 |-> 0]
          /\ normal.raw # <<0, 0, 0>> => normal.mag2 = Dot(normal.raw, normal.raw)

\* the valid slots of cell i in the order the results are appended for it:
\* its triangles, then its quads
SlotsOfType(i, n) == SelectSeq(SlotSeq, LAMBDA k : NumVert(faces[i][k]) = n)

AppendOrder(i) == SlotsOfType(i, 3) \o SlotsOfType(i, 4)

\* C15: the normal and the area of every face come from the triangles
\* (v0,v1,v2) and, for a quad, (v0,v2,v3) of the vertices in the order they
\* are stored in the face slot.
C15_TrianglesInStoredOrder ==
  FacesDone =>
    \A i \in Cells :
      /\ Len(face_normals[i]) = Len(AppendOrder(i))
      /\ \A n \in 1 .. Len(AppendOrder(i)) :
           LET stored == ValidPart(faces[i][AppendOrder(i)[n]])
           IN  /\ face_normals[i][n] = UnitNormal(stored)
               /\ face_areas[i][n] = FaceArea(stored)

\* the number of valid faces of cell i
NValid(i) == Cardinality({k \in Slots : NumVert(faces[i][k]) > 0})

\* C16: for a mesh with at least one valid face, all triangles, all quads or
\* both, _get_faces and _get_face_normals_areas return without raising, with
\* as many normals and areas for each cell as the cell has valid faces.
C16_FacesNeverRaise ==
  (pc \in {"conne_loop", "raised"} /\ \E i \in Cells : NValid(i) > 0) =>
    /\ pc = "conne_loop"
    /\ err = "none"
    /\ \A i \in Cells :
         /\ Len(face_normals[i]) = NValid(i)
         /\ Len(face_areas[i]) = NValid(i)

\* ------------------------------------------------------------------ claims: read_output
\* C17: read_output with file_format "tecplot" terminates, by returning or by
\* raising, on every finite file, a file without a line that starts with
\* VARIABLES and a file that ends right after the header included.
C17_TecplotTerminates == <>(tp_pc \in {"returned", "raised"})

====
